---- MODULE Spec2Model ----
(***************************************************************************)
(* State-machine model of kvpress/presses/moe_router_press.py: the MoE     *)
(* routers (BaseMoERouter and its five variants) and the per-layer         *)
(* orchestrator MoERouterPress (compress / get_stats / reset_stats).       *)
(*                                                                         *)
(* Number representation.                                                  *)
(*  - Logits are integers: they are measured in units of ln 2, so that     *)
(*    exp(l) = 2^l and softmax is exact rational arithmetic.               *)
(*  - A probability vector of one token is [num |-> vector, den |-> d],    *)
(*    the probability of expert e being num[e]/den.                        *)
(*  - The renormalised top-k probabilities of one token are                *)
(*    [nums, T, W]: entry k is nums[k] / (T + W * 1e-8), which is exactly  *)
(*    p_k / (sum_k p_k + 1e-8) for p_k = nums[k]/W and sum_k p_k = T/W.    *)
(*  - Other reals (losses, ratios) are reduced fractions [n |-> , d |-> ]. *)
(*  - A zero-initialised tensor is kept sparse: only the entries written   *)
(*    with a non-zero value are stored.                                    *)
(***************************************************************************)
EXTENDS Integers, Sequences, FiniteSets, TLC

VARIABLES cfg, routers, expert_compression_stats, total_aux_loss,
          forward_count, calls, out, held_stats, threads

vars == <<cfg, routers, expert_compression_stats, total_aux_loss,
          forward_count, calls, out, held_stats, threads>>

---------------------------------------------------------------------------
(* Bounds of the model.                                                    *)
MaxTokens == 2
MaxLen == 6
MaxLayers == 2

(* Program constants.                                                      *)
EpsInv == 100000000
BalanceHistoryLen == 100
ImportanceHistoryLen == 1000
CacheHistoryLen == 100
LoadHistoryLen == 50
IdealCacheLen == 1000

---------------------------------------------------------------------------
(* Arithmetic helpers.                                                     *)
Range0(n) == 0 .. (n - 1)

Max(a, b) == IF a >= b THEN a ELSE b

Min(a, b) == IF a <= b THEN a ELSE b

Abs(a) == IF a >= 0 THEN a ELSE -a

RECURSIVE SumOver(_, _)
SumOver(f, S) ==
  IF S = {} THEN 0
  ELSE LET x == CHOOSE y \in S : TRUE IN f[x] + SumOver(f, S \ {x})

RECURSIVE GCD(_, _)
GCD(a, b) == IF b = 0 THEN a ELSE GCD(b, a % b)

LCM(a, b) == (a \div GCD(a, b)) * b

RECURSIVE LCMOver(_, _)
LCMOver(f, S) ==
  IF S = {} THEN 1
  ELSE LET x == CHOOSE y \in S : TRUE IN LCM(f[x], LCMOver(f, S \ {x}))

(* Reduced fractions with positive denominator.                            *)
Rat(n, d) ==
  LET g == GCD(Abs(n), d) IN [n |-> n \div g, d |-> d \div g]

RZero == [n |-> 0, d |-> 1]

(* Sums over the least common denominator and products reduced crosswise  *)
(* keep the intermediate integers small.                                   *)
RAdd(x, y) ==
  IF y.n = 0 THEN x
  ELSE IF x.n = 0 THEN y
  ELSE LET d == LCM(x.d, y.d) IN Rat(x.n * (d \div x.d) + y.n * (d \div y.d), d)

RSub(x, y) ==
  LET d == LCM(x.d, y.d) IN Rat(x.n * (d \div x.d) - y.n * (d \div y.d), d)

RMul(x, y) ==
  IF x.n = 0 \/ y.n = 0 THEN RZero
  ELSE LET g1 == GCD(Abs(x.n), y.d)
           g2 == GCD(Abs(y.n), x.d)
       IN  Rat((x.n \div g1) * (y.n \div g2), (x.d \div g2) * (y.d \div g1))

RLess(x, y) == x.n * y.d < y.n * x.d

RLeq(x, y) == x.n * y.d <= y.n * x.d

RECURSIVE RSumOver(_, _)
RSumOver(f, S) ==
  IF S = {} THEN RZero
  ELSE LET x == CHOOSE y \in S : TRUE IN RAdd(f[x], RSumOver(f, S \ {x}))

(* The set of functions f on D with f[x] \in C[x].                         *)
RECURSIVE FunsOver(_, _)
FunsOver(D, C) ==
  IF D = {} THEN {<<>>}
  ELSE LET x == CHOOSE y \in D : TRUE
       IN  {(x :> v) @@ f : v \in C[x], f \in FunsOver(D \ {x}, C)}

(* Sparse zero-initialised buffers: reading and writing one entry.         *)
BufGet(buf, i) == IF i \in DOMAIN buf THEN buf[i] ELSE 0

BufPut(buf, i, v) ==
  IF v = 0 THEN [j \in (DOMAIN buf) \ {i} |-> buf[j]]
  ELSE (i :> v) @@ buf

EmptyBuf == <<>>

(* No dictionary returned by get_stats is held by the caller.              *)
NoStats == <<>>

(* No compress call is running in a thread of its own.                     *)
NoThreads == <<>>

ZeroVec(n) == [e \in Range0(n) |-> 0]

Tokens(B, S) == Range0(B) \X Range0(S)

---------------------------------------------------------------------------
(* Scoring networks: nn.Sequential(Linear, ReLU, Dropout, Linear).         *)
(* A network is [W1, b1, W2, b2]; W1[j][i] feeds input i into hidden unit  *)
(* j, W2[o][j] feeds hidden unit j into output o.                          *)

(* nn.init.xavier_normal_ draws the weights at random: a sample of the     *)
(* support, indexed by a seed chosen when the router is constructed.       *)
InitSeeds == {0, 1}

XavierNormal(seed, r, c) == ((seed + r + c) % 3) - 1

(* A bias that is not zeroed: one on the first unit.                       *)
OnesBias(D) == [o \in D |-> IF \A p \in D : o <= p THEN 1 ELSE 0]

(* nn.init.zeros_ on the bias of every Linear layer.                       *)
ZerosBias(D) == [o \in D |-> 0]

InitLinearPair(seed1, seed2, inDim, midDim, outDim) ==
  [W1 |-> [j \in 1 .. midDim |-> [i \in 1 .. inDim |-> XavierNormal(seed1, j, i)]],
   b1 |-> ZerosBias(1 .. midDim),
   W2 |-> [o \in Range0(outDim) |-> [j \in 1 .. midDim |-> XavierNormal(seed2, o, j)]],
   b2 |-> ZerosBias(Range0(outDim))]

Dot(w, x) == SumOver([i \in DOMAIN w |-> w[i] * x[i]], DOMAIN w)

ReLU(z) == Max(0, z)

(* nn.Dropout(p) in training mode: p = 0 is the identity; p = 1/2 zeroes   *)
(* the units outside the random keep-mask and scales the kept ones by      *)
(* 1/(1-p) = 2.                                                            *)
Dropout(a, dropHalf, keep) ==
  IF dropHalf THEN [j \in DOMAIN a |-> IF j \in keep THEN 2 * a[j] ELSE 0]
  ELSE a

MLP(net, h, dropHalf, keep) ==
  LET a == [j \in DOMAIN net.W1 |-> ReLU(Dot(net.W1[j], h) + net.b1[j])]
      d == Dropout(a, dropHalf, keep)
  IN  [o \in DOMAIN net.W2 |-> Dot(net.W2[o], d) + net.b2[o]]

(* The keep-masks that change the output: dropping a unit that is already  *)
(* zero changes nothing.                                                   *)
KeepMasks(net, h, dropHalf) ==
  IF dropHalf
  THEN LET live == {j \in DOMAIN net.W1 : Dot(net.W1[j], h) + net.b1[j] > 0}
       IN  SUBSET live
  ELSE {DOMAIN net.W1}

MinOver(f) == CHOOSE m \in {f[x] : x \in DOMAIN f} : \A x \in DOMAIN f : m <= f[x]

(* F.softmax(logits, dim=-1): exp(l_e) / sum exp(l), shifted by the        *)
(* smallest logit (softmax is shift invariant).                            *)
Softmax(logits) ==
  IF DOMAIN logits = {} THEN [num |-> logits, den |-> 1]
  ELSE LET m   == MinOver(logits)
           num == [e \in DOMAIN logits |-> 2 ^ (logits[e] - m)]
       IN  [num |-> num, den |-> SumOver(num, DOMAIN num)]

(* Hidden-state vectors fed to the routers: zero, or one non-zero entry.   *)
HiddenVectors(H) ==
  {[i \in 1 .. H |-> 0]} \cup
  {[i \in 1 .. H |-> IF i = j THEN v ELSE 0] : j \in 1 .. H, v \in {-1, 1}}

Shapes == {bs \in (1 .. MaxTokens) \X (1 .. MaxTokens) : bs[1] * bs[2] <= MaxTokens}

---------------------------------------------------------------------------
(* torch.topk(x, k): k distinct indices, values in descending order. The   *)
(* order among equal values is not specified: every such sequence.         *)
RECURSIVE TopKChoices(_, _, _)
TopKChoices(x, D, k) ==
  IF k = 0 THEN {<<>>}
  ELSE LET best == {i \in D : \A j \in D : x[j] <= x[i]}
       IN  UNION {{<<i>> \o rest : rest \in TopKChoices(x, D \ {i}, k - 1)} : i \in best}

(* topk is a function of the row it is given: tokens with the same row get *)
(* the same indices. sel maps every distinct row to one admissible choice. *)
TopKSelections(rows, k) ==
  LET distinct == {rows[t] : t \in DOMAIN rows}
  IN  FunsOver(distinct, [r \in distinct |-> TopKChoices(r.num, DOMAIN r.num, k)])

(* top_k_indices[t][j] is 0-based in j, as in the tensors.                 *)
TopKIndices(rows, sel, k) ==
  [t \in DOMAIN rows |-> [j \in Range0(k) |-> sel[rows[t]][j + 1]]]

RenormNums(rows, tki, k) ==
  [t \in DOMAIN rows |-> [j \in Range0(k) |-> rows[t].num[tki[t][j]]]]

(* Renormalize dividing by the sum over all experts, not over the top k.   *)
RenormalizeByTotal(rows, tki, k) ==
  LET nums == RenormNums(rows, tki, k)
  IN  [t \in DOMAIN rows |->
         [nums |-> nums[t],
          T |-> SumOver(rows[t].num, DOMAIN rows[t].num),
          W |-> rows[t].den]]

(* top_k_probs / (top_k_probs.sum(-1) + 1e-8), see the header.             *)
Renormalize(rows, tki, k) ==
  LET nums == RenormNums(rows, tki, k)
  IN  [t \in DOMAIN rows |->
         [nums |-> nums[t],
          T |-> SumOver(nums[t], Range0(k)),
          W |-> rows[t].den]]

---------------------------------------------------------------------------
(* BaseMoERouter._compute_capacity: int(tokens * capacity_factor * top_k   *)
(* / num_experts), capacity_factor a fraction [n, d].                      *)
ComputeCapacity(r, top_k, B, S) ==
  (B * S * r.capacity_factor.n * top_k) \div (r.capacity_factor.d * r.num_experts)

(* HasCapacity with the capacity test off by one (<= for <).               *)
HasCapacityOffByOne(used, e, capacity) == used[e] <= capacity

(* if expert_capacity_used[expert_idx] < capacity                          *)
HasCapacity(used, e, capacity) == used[e] < capacity

(* DispatchStep writing one slot further than the expert's next free slot. *)
DispatchStepSkipSlot(acc, b, s, e, prob) ==
  LET pos == acc.used[e] + 1
  IN  [used |-> [acc.used EXCEPT ![e] = @ + 1],
       dispatch |-> acc.dispatch \cup {<<b, s, e, pos>>},
       combine |-> BufPut(acc.combine, <<b, s, e, pos>>, prob)]

(* The body of that test: the assignment takes the expert's next slot.     *)
DispatchStep(acc, b, s, e, prob) ==
  LET pos == acc.used[e]
  IN  [used |-> [acc.used EXCEPT ![e] = @ + 1],
       dispatch |-> acc.dispatch \cup {<<b, s, e, pos>>},
       combine |-> BufPut(acc.combine, <<b, s, e, pos>>, prob)]

(* The loops over b, s and k, from iteration i on: iteration i handles     *)
(* batch i \div (S * k), position (i \div k) % S and rank i % k.            *)
RECURSIVE DispatchLoop(_, _, _, _, _, _, _)
DispatchLoop(acc, i, tki, tkp, S, k, capacity) ==
  IF i = Cardinality(DOMAIN tki) * k THEN acc
  ELSE LET b == i \div (S * k)
           s == (i \div k) % S
           j == i % k
           expert_idx == tki[<<b, s>>][j]
           prob == tkp[<<b, s>>].nums[j]
       IN  IF HasCapacity(acc.used, expert_idx, capacity)
           THEN DispatchLoop(DispatchStep(acc, b, s, expert_idx, prob),
                             i + 1, tki, tkp, S, k, capacity)
           ELSE DispatchLoop(acc, i + 1, tki, tkp, S, k, capacity)

CreateDispatchCombineTensors(r, top_k, tki, tkp, B, S) ==
  LET capacity == ComputeCapacity(r, top_k, B, S)
      done == DispatchLoop(
                [used |-> ZeroVec(r.num_experts), dispatch |-> {}, combine |-> EmptyBuf],
                0, tki, tkp, S, top_k, capacity)
  IN  [capacity |-> capacity, dispatch |-> done.dispatch, combine |-> done.combine]

(* (top_k_indices == expert_idx).sum()                                     *)
ExpertCount(tki, k, e) ==
  Cardinality({tj \in (DOMAIN tki) \X Range0(k) : tki[tj[1]][tj[2]] = e})

(* probs.mean(dim=[0, 1])                                                  *)
MeanProbs(rows, n) ==
  LET N == Cardinality(DOMAIN rows)
  IN  [e \in Range0(n) |->
         RMul(Rat(1, N),
              RSumOver([t \in DOMAIN rows |-> Rat(rows[t].num[e], rows[t].den)],
                       DOMAIN rows))]

(* BaseMoERouter._compute_load_balancing_loss, also used over groups.      *)
LoadBalancingLoss(rows, tki, k, n) ==
  LET N     == Cardinality(DOMAIN rows)
      mean  == MeanProbs(rows, n)
      usage == [e \in Range0(n) |-> Rat(ExpertCount(tki, k, e), N * k)]
  IN  RMul(Rat(n, 1),
           RSumOver([e \in Range0(n) |-> RMul(mean[e], usage[e])], Range0(n)))

---------------------------------------------------------------------------
(* Fractions stored in sparse buffers, and a few more fraction helpers.    *)
BufGetR(buf, i) == IF i \in DOMAIN buf THEN buf[i] ELSE RZero

BufPutR(buf, i, v) ==
  IF v = RZero THEN [j \in (DOMAIN buf) \ {i} |-> buf[j]]
  ELSE (i :> v) @@ buf

RDiv(x, y) == IF y.n > 0 THEN Rat(x.n * y.d, x.d * y.n) ELSE Rat(-(x.n * y.d), x.d * (-y.n))

ROne == [n |-> 1, d |-> 1]

RMin(x, y) == IF RLeq(x, y) THEN x ELSE y

RMax(x, y) == IF RLeq(x, y) THEN y ELSE x

(* torch.sort(x)[0]: the values in ascending order, as a sequence.         *)
RECURSIVE SortAsc(_, _)
SortAsc(x, D) ==
  IF D = {} THEN <<>>
  ELSE LET i == CHOOSE a \in D : \A b \in D : RLeq(x[a], x[b])
       IN  <<x[i]>> \o SortAsc(x, D \ {i})

---------------------------------------------------------------------------
(* BaseMoERouter.__init__                                                  *)
NewBaseRouter(type, hidden_size, num_experts, top_k, capacity_factor, dropHalf, seed1, seed2) ==
  [type |-> type,
   hidden_size |-> hidden_size,
   num_experts |-> num_experts,
   top_k |-> Min(top_k, num_experts),
   capacity_factor |-> capacity_factor,
   dropout |-> dropHalf,
   router |-> InitLinearPair(seed1, seed2, hidden_size, hidden_size, num_experts),
   total_tokens |-> 0,
   expert_usage_count |-> ZeroVec(num_experts),
   routing_decisions |-> ZeroVec(num_experts)]

(* The body of BaseMoERouter.forward up to the auxiliary loss, for given   *)
(* router_probs rows and the top-k in effect.                              *)
RouteCore(r, rows, k, sel, B, S) ==
  LET tki == TopKIndices(rows, sel, k)
      tkp == Renormalize(rows, tki, k)
      dc  == CreateDispatchCombineTensors(r, k, tki, tkp, B, S)
  IN  [B |-> B, S |-> S, top_k |-> k, capacity |-> dc.capacity,
       router_probs |-> rows,
       top_k_indices |-> tki,
       top_k_probs |-> tkp,
       dispatch_tensor |-> dc.dispatch,
       combine_tensor |-> dc.combine,
       aux_loss |-> LoadBalancingLoss(rows, tki, k, r.num_experts),
       importance |-> <<>>]

(* UpdateStats counting only the assignments that dispatch accepted.       *)
UpdateStatsDispatched(r, res) ==
  LET cnt == [e \in Range0(r.num_experts) |->
                Cardinality({x \in res.dispatch_tensor : x[3] = e})]
  IN  [r EXCEPT !.total_tokens = @ + res.B * res.S,
                !.expert_usage_count = [e \in Range0(r.num_experts) |-> @[e] + cnt[e]],
                !.routing_decisions = [e \in Range0(r.num_experts) |-> @[e] + cnt[e]]]

(* The statistics update that closes BaseMoERouter.forward.                *)
UpdateStats(r, res) ==
  LET cnt == [e \in Range0(r.num_experts) |-> ExpertCount(res.top_k_indices, res.top_k, e)]
  IN  [r EXCEPT !.total_tokens = @ + res.B * res.S,
                !.expert_usage_count = [e \in Range0(r.num_experts) |-> @[e] + cnt[e]],
                !.routing_decisions = [e \in Range0(r.num_experts) |-> @[e] + cnt[e]]]

RouterProbs(r, hs, masks) ==
  [t \in DOMAIN hs |-> Softmax(MLP(r.router, hs[t], r.dropout, masks[t]))]

MaskChoices(net, hs, dropHalf) ==
  FunsOver(DOMAIN hs, [t \in DOMAIN hs |-> KeepMasks(net, hs[t], dropHalf)])

(* BaseMoERouter.forward (expert_mask = None): every outcome of one call.  *)
BaseForward(r, hs, B, S) ==
  UNION {
    LET rows == RouterProbs(r, hs, masks)
    IN  {LET res == RouteCore(r, rows, r.top_k, sel, B, S)
         IN  [res |-> res, router |-> UpdateStats(r, res)]
         : sel \in TopKSelections(rows, r.top_k)}
    : masks \in MaskChoices(r.router, hs, r.dropout)}

BaseResetStats(r) ==
  [r EXCEPT !.total_tokens = 0,
            !.expert_usage_count = ZeroVec(r.num_experts),
            !.routing_decisions = ZeroVec(r.num_experts)]

BaseGetRoutingStats(r) ==
  [expert_usage_ratios |->
     IF r.total_tokens > 0
     THEN [e \in Range0(r.num_experts) |-> Rat(r.expert_usage_count[e], r.total_tokens)]
     ELSE [e \in Range0(r.num_experts) |-> RZero],
   expert_usage_count |-> r.expert_usage_count,
   total_tokens |-> r.total_tokens,
   routing_decisions |-> r.routing_decisions]

---------------------------------------------------------------------------
(* TopKBalancedRouter                                                      *)
NewTopKBalancedRouter(base, balance_coefficient, balance_mode) ==
  base @@ [balance_coefficient |-> balance_coefficient,
           balance_mode |-> balance_mode,
           balance_loss_history |-> EmptyBuf,
           balance_loss_idx |-> 0]

(* gini = 2 * sum(index * sorted_probs) / (n * sum(sorted_probs)) - 1      *)
GiniLoss(expert_probs, n) ==
  LET sorted == SortAsc(expert_probs, DOMAIN expert_probs)
      weighted == RSumOver([i \in 1 .. n |-> RMul(Rat(i, 1), sorted[i])], 1 .. n)
      total == RSumOver(sorted, 1 .. n)
  IN  RSub(RDiv(RMul(Rat(2, 1), weighted), RMul(Rat(n, 1), total)), ROne)

(* torch.var(expert_probs - 1/n): the unbiased sample variance.            *)
VarianceLoss(expert_probs, n) ==
  LET x == [e \in Range0(n) |-> RSub(expert_probs[e], Rat(1, n))]
      mean == RMul(Rat(1, n), RSumOver(x, Range0(n)))
      sq == [e \in Range0(n) |-> RMul(RSub(x[e], mean), RSub(x[e], mean))]
  IN  RMul(Rat(1, n - 1), RSumOver(sq, Range0(n)))

(* 1 - entropy / log(n) needs logarithms: a sample of its range [0, 1].    *)
EntropyLossSamples == {RZero, Rat(1, 2), ROne}

AdvancedBalanceLoss(r, rows) ==
  LET expert_probs == MeanProbs(rows, r.num_experts)
  IN  CASE r.balance_mode = "entropy" -> EntropyLossSamples
        [] r.balance_mode = "variance" -> {VarianceLoss(expert_probs, r.num_experts)}
        [] r.balance_mode = "gini" -> {GiniLoss(expert_probs, r.num_experts)}

TopKBalancedForward(r, hs, B, S) ==
  UNION {
    {[res |-> [o.res EXCEPT !.aux_loss = RAdd(@, RMul(r.balance_coefficient, adv))],
      router |-> [o.router EXCEPT
                    !.balance_loss_history =
                       BufPutR(@, o.router.balance_loss_idx % BalanceHistoryLen, adv),
                    !.balance_loss_idx = @ + 1]]
     : adv \in AdvancedBalanceLoss(r, o.res.router_probs)}
    : o \in BaseForward(r, hs, B, S)}

---------------------------------------------------------------------------
(* AdaptiveRouter. importance_predictor and top_k_predictor keep PyTorch's *)
(* default random initialisation (weights and biases), so their outputs    *)
(* are arbitrary: the importance of a token is any sample of (0, 1), the   *)
(* arg-max of the top-k distribution any index of its top_k outputs.       *)
NewAdaptiveRouter(base, top_k, importance_threshold, adaptive_top_k) ==
  base @@ [importance_threshold |-> importance_threshold,
           adaptive_top_k |-> adaptive_top_k,
           predictor_k |-> top_k,
           importance_history |-> EmptyBuf,
           importance_idx |-> 0]

ImportanceSamples == {Rat(1, 4), Rat(3, 4)}

ComputeImportance(hs) == [DOMAIN hs -> ImportanceSamples]

AdaptTopK(r) ==
  IF ~r.adaptive_top_k THEN {r.top_k}
  ELSE {Min(adaptive_k, r.top_k) : adaptive_k \in 1 .. r.predictor_k}

(* The loop over importance.flatten() that appends to the circular buffer. *)
RECURSIVE RecordImportance(_, _, _, _)
RecordImportance(r, importance, S, i) ==
  IF i = Cardinality(DOMAIN importance) THEN r
  ELSE LET t == <<i \div S, i % S>>
           idx == r.importance_idx % ImportanceHistoryLen
       IN  RecordImportance(
             [r EXCEPT !.importance_history = BufPutR(@, idx, importance[t]),
                       !.importance_idx = @ + 1],
             importance, S, i + 1)

(* combine_tensor * (1 + importance_weight): the weights of the tokens     *)
(* above the threshold are doubled.                                        *)
ImportantTokens(r, importance) ==
  {t \in DOMAIN importance : RLess(r.importance_threshold, importance[t])}

(* ScaleCombine without the doubling.                                      *)
ScaleCombineNone(combine, important) == combine

ScaleCombine(combine, important) ==
  [x \in DOMAIN combine |->
     IF <<x[1], x[2]>> \in important THEN 2 * combine[x] ELSE combine[x]]

AdaptiveForward(r, hs, B, S) ==
  UNION {UNION {
    {LET restored == [o.router EXCEPT !.top_k = r.top_k]
         important == ImportantTokens(r, importance)
     IN  [res |-> [o.res EXCEPT !.combine_tensor = ScaleCombine(@, important),
                                !.importance = importance],
          router |-> RecordImportance(restored, importance, S, 0)]
     : o \in BaseForward([r EXCEPT !.top_k = current_top_k], hs, B, S)}
    : current_top_k \in AdaptTopK(r)}
    : importance \in ComputeImportance(hs)}

---------------------------------------------------------------------------
(* PiKVMoERouter. cache_router_adjustment (default random initialisation,  *)
(* Tanh output) adds to the logits of every token of a batch row a vector  *)
(* in (-1, 1) per expert: a sample of such vectors, in logit units.        *)
NewPiKVMoERouter(base, top_k, importance_threshold, cache_aware) ==
  NewAdaptiveRouter(base, top_k, importance_threshold, TRUE)
    @@ [cache_aware |-> cache_aware,
        cache_usage_history |-> EmptyBuf,
        cache_hit_rates |-> [e \in Range0(base.num_experts) |-> RZero],
        cache_update_counter |-> 0]

AdjustmentSamples(n) ==
  {[e \in Range0(n) |-> IF e = 0 THEN v ELSE 0] : v \in {0, 1}}

ComputeCacheAwareAdjustment(r, B) ==
  IF ~r.cache_aware THEN {[b \in Range0(B) |-> ZeroVec(r.num_experts)]}
  ELSE [Range0(B) -> AdjustmentSamples(r.num_experts)]

(* update_cache_usage advancing the counter before it writes the history. *)
PiKVUpdateCacheUsageLate(r, expert_idx, cache_hit_rate) ==
  LET adv == [r EXCEPT !.cache_update_counter = @ + 1]
  IN  IF 0 <= expert_idx /\ expert_idx < r.num_experts
      THEN [adv EXCEPT
              !.cache_hit_rates[expert_idx] = cache_hit_rate,
              !.cache_usage_history =
                 BufPutR(@, <<expert_idx, adv.cache_update_counter % CacheHistoryLen>>,
                         cache_hit_rate)]
      ELSE adv

PiKVUpdateCacheUsage(r, expert_idx, cache_hit_rate) ==
  LET upd ==
        IF 0 <= expert_idx /\ expert_idx < r.num_experts
        THEN [r EXCEPT
                !.cache_hit_rates[expert_idx] = cache_hit_rate,
                !.cache_usage_history =
                   BufPutR(@, <<expert_idx, r.cache_update_counter % CacheHistoryLen>>,
                           cache_hit_rate)]
        ELSE r
  IN  [upd EXCEPT !.cache_update_counter = @ + 1]

(* The statistics update of PiKVMoERouter.forward: routing_decisions is    *)
(* not touched.                                                            *)
PiKVUpdateStats(r, res) ==
  [r EXCEPT !.total_tokens = @ + res.B * res.S,
            !.expert_usage_count =
               [e \in Range0(r.num_experts) |->
                  @[e] + ExpertCount(res.top_k_indices, res.top_k, e)]]

PiKVForward(r, hs, B, S) ==
  UNION {UNION {UNION {UNION {
    LET rows == [t \in DOMAIN hs |->
                   Softmax([e \in Range0(r.num_experts) |->
                              MLP(r.router, hs[t], r.dropout, masks[t])[e] + adj[t[1]][e]])]
    IN  {LET core == RouteCore(r, rows, current_top_k, sel, B, S)
             res == [core EXCEPT !.importance = importance]
         IN  [res |-> res, router |-> PiKVUpdateStats(r, res)]
         : sel \in TopKSelections(rows, current_top_k)}
    : masks \in MaskChoices(r.router, hs, r.dropout)}
    : adj \in ComputeCacheAwareAdjustment(r, B)}
    : current_top_k \in AdaptTopK(r)}
    : importance \in ComputeImportance(hs)}

---------------------------------------------------------------------------
(* EPLBRouter. The logits are multiplied by expert_weights (each in        *)
(* [0.1, 2.0]) and divided by the temperature (1.0): with all weights 1    *)
(* they are unchanged, otherwise the product is a real of the same sign,   *)
(* sampled as the logit itself or twice the logit.                         *)
NewEPLBRouter(base, balance_coefficient, temperature) ==
  base @@ [balance_coefficient |-> balance_coefficient,
           temperature |-> temperature,
           expert_weights |-> [e \in Range0(base.num_experts) |-> ROne],
           expert_load_history |-> EmptyBuf,
           load_history_idx |-> 0]

WeightScalings(r) ==
  IF \A e \in Range0(r.num_experts) : r.expert_weights[e] = ROne
  THEN {[e \in Range0(r.num_experts) |-> 1]}
  ELSE {[e \in Range0(r.num_experts) |->
           IF r.expert_weights[e] = ROne THEN 1 ELSE IF e \in two THEN 2 ELSE 1]
        : two \in {{}, Range0(r.num_experts)}}

(* EPLBRouter._compute_exact_balance_loss                                  *)
ExactBalanceLoss(r, tki, k) ==
  LET n == r.num_experts
      cnt == [e \in Range0(n) |-> ExpertCount(tki, k, e)]
      total == SumOver(cnt, Range0(n))
      target == Rat(total, n)
      sq == [e \in Range0(n) |->
               RMul(RSub(Rat(cnt[e], 1), target), RSub(Rat(cnt[e], 1), target))]
  IN  RMul(r.balance_coefficient, RDiv(RSumOver(sq, Range0(n)), Rat(total, 1)))

(* EPLBRouter._update_expert_weights. The 1e-8 added to target_load only   *)
(* guards a zero target; the target is positive after any call with a      *)
(* token, and the guard is below the resolution of the fractions.          *)
EPLBUpdateExpertWeights(r, expert_usage) ==
  LET n == r.num_experts
      idx == r.load_history_idx % LoadHistoryLen
      hist == [x \in ((DOMAIN r.expert_load_history) \ {<<e, idx>> : e \in Range0(n)})
                      \cup {<<e, idx>> : e \in {a \in Range0(n) : expert_usage[a] # 0}} |->
                 IF x[2] = idx THEN expert_usage[x[1]] ELSE r.expert_load_history[x]]
      newIdx == r.load_history_idx + 1
      valid == Min(newIdx, LoadHistoryLen)
      avg == [e \in Range0(n) |->
                Rat(SumOver([i \in Range0(valid) |-> BufGet(hist, <<e, i>>)], Range0(valid)),
                    valid)]
      target == RMul(Rat(1, n), RSumOver(avg, Range0(n)))
      adjust == [e \in Range0(n) |-> RSub(ROne, RDiv(RSub(avg[e], target), target))]
      smooth == [e \in Range0(n) |->
                   RAdd(RMul(Rat(9, 10), r.expert_weights[e]), RMul(Rat(1, 10), adjust[e]))]
  IN  [r EXCEPT !.expert_load_history = hist,
                !.load_history_idx = newIdx,
                !.expert_weights =
                   [e \in Range0(n) |-> RMin(RMax(smooth[e], Rat(1, 10)), Rat(2, 1))]]

EPLBForward(r, hs, B, S) ==
  UNION {UNION {
    LET rows == [t \in DOMAIN hs |->
                   Softmax([e \in Range0(r.num_experts) |->
                              MLP(r.router, hs[t], r.dropout, masks[t])[e] * scale[e]])]
    IN  {LET core == RouteCore(r, rows, r.top_k, sel, B, S)
             res == [core EXCEPT !.aux_loss = ExactBalanceLoss(r, core.top_k_indices, r.top_k)]
             usage == [e \in Range0(r.num_experts) |->
                         ExpertCount(res.top_k_indices, r.top_k, e)]
         IN  [res |-> res, router |-> EPLBUpdateExpertWeights(r, usage)]
         : sel \in TopKSelections(rows, r.top_k)}
    : masks \in MaskChoices(r.router, hs, r.dropout)}
    : scale \in WeightScalings(r)}

---------------------------------------------------------------------------
(* HierarchicalRouter                                                      *)
NewHierarchicalRouter(base, num_groups, group_top_k, seed1, seed2) ==
  LET per == base.num_experts \div num_groups
  IN  base @@ [num_groups |-> num_groups,
               group_top_k |-> group_top_k,
               experts_per_group |-> per,
               group_router |->
                 InitLinearPair(seed1, seed2, base.hidden_size,
                                base.hidden_size \div 2, num_groups),
               intra_group_routers |->
                 [g \in Range0(num_groups) |->
                    InitLinearPair(seed1 + g, seed2 + g, base.hidden_size,
                                   base.hidden_size \div 4, per)]]

(* softmax of intra_group_routers[g] on one token                          *)
IntraGroupProbs(r, g, h) ==
  Softmax(MLP(r.intra_group_routers[g], h, FALSE, DOMAIN r.intra_group_routers[g].W1))

(* FinalExpertProbs writing every group at expert_start_idx = 0.           *)
FinalExpertProbsNoOffset(r, h, grow, groups) ==
  LET intra == [g \in groups |-> IntraGroupProbs(r, g, h)]
      L == LCMOver([g \in groups |-> intra[g].den], groups)
      num == [e \in Range0(r.num_experts) |->
                IF e < r.experts_per_group
                THEN SumOver([g \in groups |->
                                grow.num[g] * intra[g].num[e] * (L \div intra[g].den)],
                             groups)
                ELSE 0]
  IN  [num |-> num, den |-> grow.den * L]

(* final_expert_probs of one token: zero, except group probability times   *)
(* intra-group probability at expert_start_idx + i of each selected group. *)
FinalExpertProbs(r, h, grow, groups) ==
  LET intra == [g \in groups |-> IntraGroupProbs(r, g, h)]
      L == LCMOver([g \in groups |-> intra[g].den], groups)
      num == [e \in Range0(r.num_experts) |->
                IF r.experts_per_group = 0 THEN 0
                ELSE LET g == e \div r.experts_per_group
                         i == e % r.experts_per_group
                     IN  IF g \in groups
                         THEN grow.num[g] * intra[g].num[i] * (L \div intra[g].den)
                         ELSE 0]
  IN  [num |-> num, den |-> grow.den * L]

HierarchicalForward(r, hs, B, S) ==
  LET gk == Min(r.group_top_k, r.num_groups)
  IN  UNION {
        LET grows == [t \in DOMAIN hs |->
                        Softmax(MLP(r.group_router, hs[t], r.dropout, gmasks[t]))]
        IN  UNION {
              LET tgi == TopKIndices(grows, gsel, gk)
                  rows == [t \in DOMAIN hs |->
                             FinalExpertProbs(r, hs[t], grows[t],
                                              {tgi[t][j] : j \in Range0(gk)})]
              IN  {LET core == RouteCore(r, rows, r.top_k, sel, B, S)
                       group_loss == LoadBalancingLoss(grows, tgi, gk, r.num_groups)
                   IN  [res |-> [core EXCEPT !.aux_loss = RAdd(group_loss, @)]
                                  @@ [group_probs |-> grows, top_group_indices |-> tgi],
                        router |-> r]
                   : sel \in TopKSelections(rows, r.top_k)}
              : gsel \in TopKSelections(grows, gk)}
        : gmasks \in MaskChoices(r.group_router, hs, r.dropout)}

---------------------------------------------------------------------------
(* One route call on any router: the forward of its class.                 *)
Forward(r, hs, B, S) ==
  CASE r.type = "topk_balanced" -> TopKBalancedForward(r, hs, B, S)
    [] r.type = "adaptive" -> AdaptiveForward(r, hs, B, S)
    [] r.type = "pikv" -> PiKVForward(r, hs, B, S)
    [] r.type = "eplb" -> EPLBForward(r, hs, B, S)
    [] r.type = "hierarchical" -> HierarchicalForward(r, hs, B, S)
    [] OTHER -> BaseForward(r, hs, B, S)

(* MoERouterPress._get_router: the routers it can construct for a layer.   *)
NewRouters(c, hidden_size) ==
  {LET base == NewBaseRouter(c.router_type, hidden_size, c.num_experts, c.top_k,
                             c.capacity_factor, c.dropout, seed, seed + 1)
   IN  CASE c.router_type = "topk_balanced" ->
              NewTopKBalancedRouter(base, c.balance_coefficient, c.balance_mode)
         [] c.router_type = "adaptive" ->
              NewAdaptiveRouter(base, c.top_k, c.importance_threshold, c.adaptive_top_k)
         [] c.router_type = "pikv" ->
              NewPiKVMoERouter(base, c.top_k, c.importance_threshold, c.cache_aware)
         [] c.router_type = "eplb" ->
              NewEPLBRouter(base, c.balance_coefficient, c.temperature)
         [] c.router_type = "hierarchical" ->
              NewHierarchicalRouter(base, c.num_groups, c.group_top_k, seed, seed + 1)
         [] OTHER -> base
   : seed \in InitSeeds}

---------------------------------------------------------------------------
(* Configurations (the dataclass fields of MoERouterPress with their       *)
(* defaults, overridden per configuration).  The dropout field is a        *)
(* boolean: FALSE is a router whose dropout layer passes its input through *)
(* (rate 0, or any rate in eval mode), TRUE is an active dropout layer of  *)
(* rate 1/2, whose kept units are scaled by 2 so that logits stay whole    *)
(* numbers.  The dataclass default rate is 0.1.                            *)
DefaultConfig ==
  [num_experts |-> 4,
   top_k |-> 2,
   capacity_factor |-> Rat(3, 2),
   dropout |-> FALSE,
   router_type |-> "pikv",
   cache_aware |-> TRUE,
   compression_ratio |-> [num |-> 1, den |-> 2, below |-> FALSE],
   balance_coefficient |-> Rat(1, 100),
   balance_mode |-> "entropy",
   importance_threshold |-> Rat(1, 2),
   adaptive_top_k |-> TRUE,
   temperature |-> 1,
   num_groups |-> 4,
   group_top_k |-> 1]

RouterTypes == {"base", "topk_balanced", "adaptive", "pikv", "eplb", "hierarchical"}

Config(type, n, k, cf) ==
  [DefaultConfig EXCEPT !.router_type = type, !.num_experts = n, !.top_k = k,
                        !.capacity_factor = cf]

(* The routers of the routing specification: the base router with two or   *)
(* four experts, top_k 1 or 2 and capacity factors 0.5 and 1.5; every      *)
(* other class with top_k = 2, the classes with sampled predictors and the *)
(* hierarchical router with the default capacity factor only, the PiKV     *)
(* router with two experts, the hierarchical router also with eight        *)
(* experts in its four groups, a base router with dropout.                 *)
RouteConfigs ==
  {Config("base", n, k, cf) : n \in {2, 4}, k \in {1, 2}, cf \in {Rat(1, 2), Rat(3, 2)}}
  \cup {[Config(type, n, 2, cf) EXCEPT !.balance_mode = "gini"] :
          type \in {"topk_balanced", "eplb"}, n \in {2, 4}, cf \in {Rat(1, 2), Rat(3, 2)}}
  \cup {Config(type, n, 2, Rat(3, 2)) :
          type \in {"adaptive", "hierarchical"}, n \in {2, 4}}
  \cup {Config("pikv", 2, 2, Rat(3, 2)), Config("hierarchical", 8, 2, Rat(3, 2)),
         [Config("base", 2, 1, Rat(3, 2)) EXCEPT !.dropout = TRUE]}

(* The hidden sizes the routers are constructed for: the two-stage nets of *)
(* the hierarchical router have hidden_size // 2 and hidden_size // 4      *)
(* units.                                                                  *)
HiddenSizes(c) == IF c.router_type = "hierarchical" THEN {2} ELSE {1}

HiddenStates(B, S, H) == [Tokens(B, S) -> HiddenVectors(H)]

---------------------------------------------------------------------------
(* Specification SpecRoute: one router, constructed in Init, and route     *)
(* calls on it.                                                            *)
InitRoute ==
  /\ cfg \in RouteConfigs
  /\ \E H \in HiddenSizes(cfg) : \E r \in NewRouters(cfg, H) : routers = (0 :> r)
  /\ expert_compression_stats = <<>>
  /\ total_aux_loss = RZero
  /\ forward_count = 0
  /\ calls = 0
  /\ out = [op |-> "init"]
  /\ held_stats = NoStats
  /\ threads = NoThreads

RouteCall ==
  /\ \E shape \in {sh \in Shapes : calls + sh[1] * sh[2] <= MaxTokens} :
       \E hs \in HiddenStates(shape[1], shape[2], routers[0].hidden_size) :
         \E o \in Forward(routers[0], hs, shape[1], shape[2]) :
           /\ routers' = [routers EXCEPT ![0] = o.router]
           /\ out' = [op |-> "route", res |-> o.res]
           /\ calls' = calls + shape[1] * shape[2]
  /\ UNCHANGED <<cfg, expert_compression_stats, total_aux_loss, forward_count, held_stats, threads>>

RouterResetStats ==
  /\ out.op = "route"
  /\ routers' = [routers EXCEPT ![0] = BaseResetStats(@)]
  /\ out' = [op |-> "reset"]
  /\ UNCHANGED <<cfg, expert_compression_stats, total_aux_loss, forward_count, calls,
                 held_stats, threads>>

NextRoute == RouteCall \/ RouterResetStats

SpecRoute == InitRoute /\ [][NextRoute]_vars

---------------------------------------------------------------------------
(* Specification SpecMask: an adaptive or cache-aware router, and route    *)
(* calls on it with and without an expert_mask.                            *)

(* A route call with an expert_mask that cannot be broadcast against the   *)
(* logits [batch, seq, num_experts]: the addition of the mask raises       *)
(* RuntimeError. What such a call leaves of the router: forward of         *)
(* AdaptiveRouter has assigned current_top_k to self.top_k before it calls *)
(* super().forward, where the mask is added; the other classes add the     *)
(* mask before they change anything.                                       *)
ForwardMaskError(r) ==
  IF r.type = "adaptive"
  THEN {[r EXCEPT !.top_k = current_top_k] : current_top_k \in AdaptTopK(r)}
  ELSE {r}

MaskConfigs ==
  {Config("adaptive", n, 2, Rat(3, 2)) : n \in {2, 4}} \cup {Config("pikv", 2, 2, Rat(3, 2))}

InitMask ==
  /\ cfg \in MaskConfigs
  /\ \E H \in HiddenSizes(cfg) : \E r \in NewRouters(cfg, H) : routers = (0 :> r)
  /\ expert_compression_stats = <<>>
  /\ total_aux_loss = RZero
  /\ forward_count = 0
  /\ calls = 0
  /\ out = [op |-> "init"]
  /\ held_stats = NoStats
  /\ threads = NoThreads

RouteCallMaskError ==
  /\ \E r \in ForwardMaskError(routers[0]) : routers' = [routers EXCEPT ![0] = r]
  /\ out' = [op |-> "error", error |-> "RuntimeError"]
  /\ UNCHANGED <<cfg, expert_compression_stats, total_aux_loss, forward_count, calls,
                 held_stats, threads>>

NextMask == RouteCall \/ RouteCallMaskError \/ RouterResetStats

SpecMask == InitMask /\ [][NextMask]_vars

---------------------------------------------------------------------------
(* MoERouterPress: the compression policy engine.                          *)
(* A key or value tensor [batch, heads, seq, head_dim] is kept as its      *)
(* three outer dimensions and pos, the sequence of original positions      *)
(* (0-based) it holds along the sequence dimension.                        *)
KVTensor(batch, heads, L, head_dim) ==
  [batch |-> batch, heads |-> heads, head_dim |-> head_dim,
   pos |-> [i \in 1 .. L |-> i - 1]]

SeqLen(x) == Len(x.pos)

(* expert_strategies of __post_init__.                                     *)
ExpertStrategies ==
  (0 :> "aggressive") @@ (1 :> "moderate") @@ (2 :> "conservative") @@ (3 :> "selective")

(* The front and back fractions of the three prefix-and-suffix strategies. *)
KeepFractions(strategy) ==
  CASE strategy = "aggressive" -> <<Rat(1, 5), Rat(1, 10)>>
    [] strategy = "moderate" -> <<Rat(3, 10), Rat(1, 5)>>
    [] strategy = "conservative" -> <<Rat(1, 2), Rat(3, 10)>>

(* int(seq_len * f) for the doubles 0.2, 0.1, 0.3 and 0.5: the truncated   *)
(* double product equals the exact floor for every seq_len below 5000.     *)
IntMul(L, f) == (L * f.n) \div f.d

(* CatFrontBack with the back slice starting one position early.           *)
CatFrontBackEarly(x, keep_front, keep_back) ==
  [x EXCEPT !.pos = SubSeq(@, 1, keep_front)
                      \o SubSeq(@, Len(@) - keep_back, Len(@))]

(* torch.cat([x[:, :, :keep_front], x[:, :, -keep_back:]], dim=2)          *)
CatFrontBack(x, keep_front, keep_back) ==
  [x EXCEPT !.pos = SubSeq(@, 1, keep_front)
                      \o SubSeq(@, Len(@) - keep_back + 1, Len(@))]

(* int(seq_len * (1 - compression_ratio)) for the double compression_ratio *)
(* [num/den, below]. For 0.5 the product is exact. For 0.8 the double      *)
(* 1 - 0.8 lies just below 1/5 (below = TRUE): the product truncates to    *)
(* one less than seq_len / 5 whenever that is a whole number.              *)
IntKeep(L, ratio) ==
  LET p == L * (ratio.den - ratio.num)
  IN  IF ratio.below /\ p % ratio.den = 0 THEN (p \div ratio.den) - 1
      ELSE p \div ratio.den

(* NumKeep without the lower limit of one position.                        *)
NumKeepNoFloor(L, ratio) == Min(IntKeep(L, ratio), L)

(* num_keep of the selective strategy.                                     *)
NumKeep(L, ratio) == Min(Max(1, IntKeep(L, ratio)), L)

(* router_probs.mean(dim=0).mean(dim=-1): one score per position of the    *)
(* hidden states.                                                          *)
ImportanceScores(router_probs, B, S, n) ==
  [s \in Range0(S) |->
     RMul(Rat(1, B * n),
          RSumOver([be \in Range0(B) \X Range0(n) |->
                      Rat(router_probs[<<be[1], s>>].num[be[2]],
                          router_probs[<<be[1], s>>].den)],
                   Range0(B) \X Range0(n)))]

(* torch.linspace(0, 1, seq_len)                                           *)
Linspace(L) == [i \in Range0(L) |-> IF L = 1 THEN RZero ELSE Rat(i, L - 1)]

(* torch.topk over fractions, as TopKChoices.                              *)
RECURSIVE TopKChoicesR(_, _, _)
TopKChoicesR(x, D, k) ==
  IF k = 0 THEN {<<>>}
  ELSE LET best == {i \in D : \A j \in D : RLeq(x[j], x[i])}
       IN  UNION {{<<i>> \o rest : rest \in TopKChoicesR(x, D \ {i}, k - 1)} : i \in best}

(* torch.sort(important_indices)[0]                                        *)
RECURSIVE SortIndices(_)
SortIndices(I) ==
  IF I = {} THEN <<>>
  ELSE LET m == CHOOSE a \in I : \A b \in I : a <= b
       IN  <<m>> \o SortIndices(I \ {m})

(* x[:, :, important_indices, :]                                           *)
IndexSelect(x, idx) == [x EXCEPT !.pos = [i \in 1 .. Len(idx) |-> x.pos[idx[i] + 1]]]

(* The selective branch: every outcome of topk.                            *)
SelectiveCompression(c, keys, values, router_probs, B, S) ==
  LET L == SeqLen(keys)
      scores == ImportanceScores(router_probs, B, S, c.num_experts)
      num_keep == NumKeep(L, c.compression_ratio)
      used == IF S # L THEN Linspace(L) ELSE scores
      picks == {{ch[i] : i \in 1 .. num_keep} : ch \in TopKChoicesR(used, Range0(L), num_keep)}
  IN  {[keys |-> IndexSelect(keys, SortIndices(I)),
        values |-> IndexSelect(values, SortIndices(I))] : I \in picks}

(* MoERouterPress._apply_expert_compression: every outcome.                *)
ApplyExpertCompression(c, keys, values, strategy, router_probs, B, S) ==
  IF strategy \in {"aggressive", "moderate", "conservative"}
  THEN LET L == SeqLen(keys)
           keep_front == Max(1, IntMul(L, KeepFractions(strategy)[1]))
           keep_back == Max(1, IntMul(L, KeepFractions(strategy)[2]))
       IN  IF L > keep_front + keep_back
           THEN {[keys |-> CatFrontBack(keys, keep_front, keep_back),
                  values |-> CatFrontBack(values, keep_front, keep_back)]}
           ELSE {[keys |-> keys, values |-> values]}
  ELSE IF strategy = "selective"
  THEN SelectiveCompression(c, keys, values, router_probs, B, S)
  ELSE {[keys |-> keys, values |-> values]}

(* MoERouterPress._compute_cache_hit_rate                                  *)
ComputeCacheHitRate(keys) == RMin(ROne, Rat(SeqLen(keys), IdealCacheLen))

---------------------------------------------------------------------------
(* MoERouterPress: the orchestrator.                                       *)

(* The per-layer statistics _get_router creates with a router.             *)
NewLayerStats(c) ==
  [expert_usage |-> ZeroVec(c.num_experts),
   compression_ratios |-> [e \in Range0(c.num_experts) |-> RZero],
   cache_hit_rates |-> [e \in Range0(c.num_experts) |-> RZero]]

(* torch.argmax: the index of the first maximal value.                     *)
ArgMax(x) ==
  CHOOSE i \in DOMAIN x :
    /\ \A j \in DOMAIN x : RLeq(x[j], x[i])
    /\ \A j \in DOMAIN x : j < i => RLess(x[j], x[i])

(* MoERouterPress._get_router: the router of a layer, constructed on the   *)
(* first call for the layer.                                               *)
GetRouter(layer_idx, hidden_size) ==
  IF layer_idx \in DOMAIN routers THEN {routers[layer_idx]}
  ELSE NewRouters(cfg, hidden_size)

GetLayerStats(layer_idx) ==
  IF layer_idx \in DOMAIN expert_compression_stats
  THEN expert_compression_stats[layer_idx]
  ELSE NewLayerStats(cfg)

(* UpdateCompressionStats storing the values of the call instead of       *)
(* adding them.                                                            *)
UpdateCompressionStatsOverwrite(st, dominant_expert, keys, compressed_keys) ==
  LET original_size == SeqLen(keys)
      compressed_size == SeqLen(compressed_keys)
      compression_ratio == Rat(original_size - compressed_size, original_size)
  IN  [st EXCEPT !.expert_usage[dominant_expert] = 1,
                 !.compression_ratios[dominant_expert] = compression_ratio,
                 !.cache_hit_rates[dominant_expert] =
                    ComputeCacheHitRate(compressed_keys)]

(* The statistics update that closes compress.                             *)
UpdateCompressionStats(st, dominant_expert, keys, compressed_keys) ==
  LET original_size == SeqLen(keys)
      compressed_size == SeqLen(compressed_keys)
      compression_ratio == Rat(original_size - compressed_size, original_size)
  IN  [st EXCEPT !.expert_usage[dominant_expert] = @ + 1,
                 !.compression_ratios[dominant_expert] = RAdd(@, compression_ratio),
                 !.cache_hit_rates[dominant_expert] =
                    RAdd(@, ComputeCacheHitRate(compressed_keys))]

(* MoERouterPress.compress on layer layer_idx, for hidden states hs of     *)
(* shape [B, S, hidden_size] and keys and values of one shape. A dominant  *)
(* expert outside expert_strategies raises KeyError after the auxiliary    *)
(* loss and the forward count have been accumulated.                       *)
Compress(layer_idx, hs, B, S, keys, values) ==
  \E router \in GetRouter(layer_idx, Cardinality(DOMAIN hs[<<0, 0>>])) :
    \E o \in Forward(router, hs, B, S) :
      LET expert_probs == MeanProbs(o.res.router_probs, cfg.num_experts)
          dominant_expert == ArgMax(expert_probs)
          st == GetLayerStats(layer_idx)
      IN  /\ total_aux_loss' = RAdd(total_aux_loss, o.res.aux_loss)
          /\ forward_count' = forward_count + 1
          /\ calls' = calls + B * S
          /\ IF dominant_expert \notin DOMAIN ExpertStrategies
             THEN /\ routers' = (layer_idx :> o.router) @@ routers
                  /\ expert_compression_stats' = (layer_idx :> st) @@ expert_compression_stats
                  /\ out' = [op |-> "error", error |-> "KeyError", layer |-> layer_idx]
             ELSE LET strategy == ExpertStrategies[dominant_expert]
                  IN  \E c \in ApplyExpertCompression(cfg, keys, values, strategy,
                                                      o.res.router_probs, B, S) :
                        LET hit == ComputeCacheHitRate(c.keys)
                            updated == IF router.type = "pikv"
                                       THEN PiKVUpdateCacheUsage(o.router, dominant_expert, hit)
                                       ELSE o.router
                        IN  /\ routers' = (layer_idx :> updated) @@ routers
                            /\ expert_compression_stats' =
                                 (layer_idx :> UpdateCompressionStats(st, dominant_expert,
                                                                      keys, c.keys))
                                   @@ expert_compression_stats
                            /\ out' = [op |-> "compress", layer |-> layer_idx,
                                       strategy |-> strategy,
                                       dominant_expert |-> dominant_expert,
                                       keys |-> keys, values |-> values,
                                       compressed_keys |-> c.keys,
                                       compressed_values |-> c.values]
  /\ UNCHANGED <<cfg, held_stats, threads>>

(* MoERouterPress.get_stats                                                *)
GetStatsValue ==
  [total_aux_loss |-> total_aux_loss,
   avg_aux_loss |-> RMul(total_aux_loss, Rat(1, Max(1, forward_count))),
   forward_count |-> forward_count,
   layer_stats |->
     [l \in DOMAIN routers |->
        [router_stats |-> BaseGetRoutingStats(routers[l]),
         expert_compression_stats |-> expert_compression_stats[l]]]]

(* MoERouterPress.reset_stats                                              *)
PressResetStats ==
  /\ total_aux_loss' = RZero
  /\ forward_count' = 0
  /\ routers' = [l \in DOMAIN routers |-> BaseResetStats(routers[l])]
  /\ expert_compression_stats' =
       [l \in DOMAIN expert_compression_stats |-> NewLayerStats(cfg)]

---------------------------------------------------------------------------
(* Specification Spec: one MoERouterPress and the calls on it.             *)

(* The configurations of the press: the default one (the PiKV router,      *)
(* four experts, one per entry of expert_strategies, top_k 2, capacity     *)
(* factor 1.5) with each router class, the adaptive router with two        *)
(* experts.                                                                *)
PressConfigs ==
  {[Config(type, IF type = "adaptive" THEN 2 ELSE 4, 2, Rat(3, 2))
      EXCEPT !.balance_mode = "gini"] : type \in RouterTypes}

(* The hidden size of the states a layer is called with: that of its       *)
(* router once it has one.                                                 *)
LayerHiddenSizes(layer_idx) ==
  IF layer_idx \in DOMAIN routers THEN {routers[layer_idx].hidden_size}
  ELSE HiddenSizes(cfg)

(* The cache lengths compress is called with: the length of the hidden     *)
(* states, and the longest cache.                                          *)
CacheLens(S) == {S, MaxLen}

Init ==
  /\ cfg \in PressConfigs
  /\ routers = <<>>
  /\ expert_compression_stats = <<>>
  /\ total_aux_loss = RZero
  /\ forward_count = 0
  /\ calls = 0
  /\ out = [op |-> "init"]
  /\ held_stats = NoStats
  /\ threads = NoThreads

CompressCall ==
  \E layer_idx \in Range0(MaxLayers) :
    \E shape \in {sh \in Shapes : calls + sh[1] * sh[2] <= MaxTokens} :
      \E H \in LayerHiddenSizes(layer_idx) :
        \E hs \in HiddenStates(shape[1], shape[2], H) :
          \E L \in CacheLens(shape[2]) :
            Compress(layer_idx, hs, shape[1], shape[2],
                     KVTensor(shape[1], 2, L, 1), KVTensor(shape[1], 2, L, 1))

ResetStats ==
  /\ PressResetStats
  /\ out' = [op |-> "reset"]
  /\ UNCHANGED <<cfg, calls, held_stats, threads>>

GetStats ==
  /\ out.op # "stats"
  /\ out' = [op |-> "stats", stats |-> GetStatsValue]
  /\ UNCHANGED <<cfg, routers, expert_compression_stats, total_aux_loss,
                 forward_count, calls, held_stats, threads>>

Next == CompressCall \/ ResetStats \/ GetStats

Spec == Init /\ [][Next]_vars

---------------------------------------------------------------------------
(* Specification SpecWide: a MoERouterPress with more experts than         *)
(* expert_strategies has entries (eight, routed hierarchically in four     *)
(* groups of two), and the same calls on it.                               *)
WideConfigs == {Config("hierarchical", 8, 2, Rat(3, 2))}

InitWide ==
  /\ cfg \in WideConfigs
  /\ routers = <<>>
  /\ expert_compression_stats = <<>>
  /\ total_aux_loss = RZero
  /\ forward_count = 0
  /\ calls = 0
  /\ out = [op |-> "init"]
  /\ held_stats = NoStats
  /\ threads = NoThreads

SpecWide == InitWide /\ [][Next]_vars

---------------------------------------------------------------------------
(* Specification SpecSnapshot: a MoERouterPress whose caller keeps the     *)
(* dictionary get_stats returned while it goes on calling compress and     *)
(* reset_stats.                                                            *)

(* The dictionary get_stats builds. total_aux_loss, avg_aux_loss and       *)
(* forward_count are Python numbers and expert_usage_ratios is a tensor    *)
(* computed for the call. expert_usage_count, total_tokens and             *)
(* routing_decisions are the router's buffers themselves, and              *)
(* expert_compression_stats is the orchestrator's own per-layer            *)
(* dictionary: the model keeps each of them as a reference to its owner.   *)
GetStatsObject ==
  [total_aux_loss |-> total_aux_loss,
   avg_aux_loss |-> RMul(total_aux_loss, Rat(1, Max(1, forward_count))),
   forward_count |-> forward_count,
   layer_stats |->
     [l \in DOMAIN routers |->
        [router_stats |->
           [expert_usage_ratios |-> BaseGetRoutingStats(routers[l]).expert_usage_ratios,
            expert_usage_count |-> [ref |-> "expert_usage_count", layer |-> l],
            total_tokens |-> [ref |-> "total_tokens", layer |-> l],
            routing_decisions |-> [ref |-> "routing_decisions", layer |-> l]],
         expert_compression_stats |-> [ref |-> "expert_compression_stats", layer |-> l]]]]

(* What the holder of such a dictionary reads in it now: every reference   *)
(* yields the present content of the object it points to.                  *)
ReadStats(obj) ==
  [obj EXCEPT !.layer_stats =
     [l \in DOMAIN obj.layer_stats |->
        [router_stats |->
           [expert_usage_ratios |-> obj.layer_stats[l].router_stats.expert_usage_ratios,
            expert_usage_count |-> routers[l].expert_usage_count,
            total_tokens |-> routers[l].total_tokens,
            routing_decisions |-> routers[l].routing_decisions],
         expert_compression_stats |-> expert_compression_stats[l]]]]

SnapshotConfigs == {Config("base", 4, 2, Rat(3, 2))}

InitSnapshot ==
  /\ cfg \in SnapshotConfigs
  /\ routers = <<>>
  /\ expert_compression_stats = <<>>
  /\ total_aux_loss = RZero
  /\ forward_count = 0
  /\ calls = 0
  /\ out = [op |-> "init"]
  /\ held_stats = NoStats
  /\ threads = NoThreads

(* get_stats, the caller keeping the returned dictionary; returned is what *)
(* the dictionary read when it was returned.                               *)
GetStatsKept ==
  /\ held_stats' = [object |-> GetStatsObject, returned |-> GetStatsValue]
  /\ held_stats' # held_stats
  /\ out' = [op |-> "stats", stats |-> GetStatsValue]
  /\ UNCHANGED <<cfg, routers, expert_compression_stats, total_aux_loss,
                 forward_count, calls, threads>>

NextSnapshot == CompressCall \/ ResetStats \/ GetStatsKept

SpecSnapshot == InitSnapshot /\ [][NextSnapshot]_vars

---------------------------------------------------------------------------
(* Specification SpecConcurrent: two compress calls, each in a thread of   *)
(* its own and on a layer of its own, thread t on layer t. The routers and *)
(* the per-layer statistics of the two layers are separate objects; the    *)
(* attributes total_aux_loss and forward_count of the press are shared.    *)
(* self.total_aux_loss += aux_loss.item() reads the attribute, calls       *)
(* item() and then stores the sum, and self.forward_count += 1 reads and   *)
(* then stores: the other thread can run between the read and the store.   *)
(* threads[t] is the position of thread t in compress and its locals.      *)
ThreadIds == {0, 1}

ConcurrentConfigs == {Config("base", 4, 2, Rat(3, 2)), Config("adaptive", 2, 2, Rat(3, 2))}

InitConcurrent ==
  /\ cfg \in ConcurrentConfigs
  /\ routers = <<>>
  /\ expert_compression_stats = <<>>
  /\ total_aux_loss = RZero
  /\ forward_count = 0
  /\ calls = 0
  /\ out = [op |-> "init"]
  /\ held_stats = NoStats
  /\ threads = [t \in ThreadIds |-> [pc |-> "idle", layer_idx |-> t]]

(* compress up to the auxiliary loss: _get_router and the route call.      *)
ThreadRoute(t) ==
  /\ threads[t].pc = "idle"
  /\ \E shape \in {sh \in Shapes : calls + sh[1] * sh[2] <= MaxTokens} :
       \E H \in LayerHiddenSizes(t) :
         \E hs \in HiddenStates(shape[1], shape[2], H) :
           \E L \in CacheLens(shape[2]) :
             \E router \in GetRouter(t, H) :
               \E o \in Forward(router, hs, shape[1], shape[2]) :
                 /\ routers' = (t :> o.router) @@ routers
                 /\ expert_compression_stats' =
                      (t :> GetLayerStats(t)) @@ expert_compression_stats
                 /\ calls' = calls + shape[1] * shape[2]
                 /\ threads' = [threads EXCEPT ![t] =
                      [pc |-> "load_aux_loss", layer_idx |-> t,
                       B |-> shape[1], S |-> shape[2],
                       keys |-> KVTensor(shape[1], 2, L, 1),
                       values |-> KVTensor(shape[1], 2, L, 1),
                       router_probs |-> o.res.router_probs,
                       aux_loss |-> o.res.aux_loss]]
  /\ UNCHANGED <<cfg, total_aux_loss, forward_count, out, held_stats>>

(* self.total_aux_loss += aux_loss.item(): the read ...                    *)
ThreadLoadAuxLoss(t) ==
  /\ threads[t].pc = "load_aux_loss"
  /\ threads' = [threads EXCEPT ![t] =
       [@ EXCEPT !.pc = "store_aux_loss"] @@ [loaded |-> total_aux_loss]]
  /\ UNCHANGED <<cfg, routers, expert_compression_stats, total_aux_loss, forward_count,
                 calls, out, held_stats>>

(* ... and the store.                                                      *)
ThreadStoreAuxLoss(t) ==
  /\ threads[t].pc = "store_aux_loss"
  /\ total_aux_loss' = RAdd(threads[t].loaded, threads[t].aux_loss)
  /\ threads' = [threads EXCEPT ![t].pc = "load_forward_count"]
  /\ UNCHANGED <<cfg, routers, expert_compression_stats, forward_count, calls, out,
                 held_stats>>

(* self.forward_count += 1: the read ...                                   *)
ThreadLoadForwardCount(t) ==
  /\ threads[t].pc = "load_forward_count"
  /\ threads' = [threads EXCEPT ![t].pc = "store_forward_count",
                                ![t].loaded = forward_count]
  /\ UNCHANGED <<cfg, routers, expert_compression_stats, total_aux_loss, forward_count,
                 calls, out, held_stats>>

(* ... and the store.                                                      *)
ThreadStoreForwardCount(t) ==
  /\ threads[t].pc = "store_forward_count"
  /\ forward_count' = threads[t].loaded + 1
  /\ threads' = [threads EXCEPT ![t].pc = "compress"]
  /\ UNCHANGED <<cfg, routers, expert_compression_stats, total_aux_loss, calls, out,
                 held_stats>>

(* The rest of compress: the dominant expert, its strategy, and the        *)
(* statistics of the layer.                                                *)
ThreadCompress(t) ==
  /\ threads[t].pc = "compress"
  /\ LET th == threads[t]
         dominant_expert == ArgMax(MeanProbs(th.router_probs, cfg.num_experts))
     IN  IF dominant_expert \notin DOMAIN ExpertStrategies
         THEN /\ out' = [op |-> "error", error |-> "KeyError", layer |-> t]
              /\ threads' = [threads EXCEPT ![t].pc = "failed"]
              /\ UNCHANGED <<routers, expert_compression_stats>>
         ELSE LET strategy == ExpertStrategies[dominant_expert]
              IN  \E c \in ApplyExpertCompression(cfg, th.keys, th.values, strategy,
                                                  th.router_probs, th.B, th.S) :
                    LET hit == ComputeCacheHitRate(c.keys)
                    IN  /\ routers' =
                             [routers EXCEPT ![t] =
                                IF @.type = "pikv"
                                THEN PiKVUpdateCacheUsage(@, dominant_expert, hit)
                                ELSE @]
                        /\ expert_compression_stats' =
                             [expert_compression_stats EXCEPT ![t] =
                                UpdateCompressionStats(@, dominant_expert, th.keys, c.keys)]
                        /\ out' = [op |-> "compress", layer |-> t,
                                   strategy |-> strategy,
                                   dominant_expert |-> dominant_expert,
                                   keys |-> th.keys, values |-> th.values,
                                   compressed_keys |-> c.keys,
                                   compressed_values |-> c.values]
                        /\ threads' = [threads EXCEPT ![t].pc = "done"]
  /\ UNCHANGED <<cfg, total_aux_loss, forward_count, calls, held_stats>>

NextConcurrent ==
  \E t \in ThreadIds :
    \/ ThreadRoute(t)
    \/ ThreadLoadAuxLoss(t)
    \/ ThreadStoreAuxLoss(t)
    \/ ThreadLoadForwardCount(t)
    \/ ThreadStoreForwardCount(t)
    \/ ThreadCompress(t)

SpecConcurrent == InitConcurrent /\ [][NextConcurrent]_vars

---------------------------------------------------------------------------
(* Specification SpecPolicy: _apply_expert_compression as a function of    *)
(* its inputs, applied once to inputs drawn in the action.                 *)

(* compression_ratio 0.5 (the default) and 0.8.                            *)
CompressionRatios ==
  {[num |-> 1, den |-> 2, below |-> FALSE], [num |-> 4, den |-> 5, below |-> TRUE]}

PolicyConfigs == {[DefaultConfig EXCEPT !.compression_ratio = r] : r \in CompressionRatios}

(* The cache lengths of the worked examples.                               *)
ExampleLens == {10, 100}

(* The router_probs rows of one token, for four experts: the uniform row   *)
(* of a softmax router, and rows of the hierarchical router, whose mass is *)
(* the probability of the selected group (1/4 and 2/5) on one expert.      *)
UniformRow == [num |-> [e \in Range0(4) |-> 1], den |-> 4]

GroupRows ==
  {[num |-> [e \in Range0(4) |-> IF e = 0 THEN 1 ELSE 0], den |-> 4],
   [num |-> [e \in Range0(4) |-> IF e = 1 THEN 2 ELSE 0], den |-> 5]}

(* The inputs: every strategy on caches of 1 .. MaxLen positions, with     *)
(* router_probs of as many positions or of a single one; the prefix and    *)
(* suffix strategies on the example lengths and, for uniform router_probs  *)
(* of 10 positions or of a single one, the selective strategy on a cache   *)
(* of 10 positions.                                                        *)
PolicyInputs ==
  {[strategy |-> st, L |-> L, S |-> L, router_probs |-> [t \in Tokens(1, L) |-> UniformRow]] :
     st \in {"aggressive", "moderate", "conservative"}, L \in (1 .. MaxLen) \cup ExampleLens}
  \cup {[strategy |-> "selective", L |-> 10, S |-> S,
         router_probs |-> [t \in Tokens(1, S) |-> UniformRow]] : S \in {10, 1}}
  \cup UNION {UNION {
         {[strategy |-> "selective", L |-> L, S |-> S, router_probs |-> rp] :
            rp \in [Tokens(1, S) -> {UniformRow}] \cup [Tokens(1, S) -> GroupRows]}
         : S \in {L, 1}} : L \in 1 .. MaxLen}

InitPolicy ==
  /\ cfg \in PolicyConfigs
  /\ routers = <<>>
  /\ expert_compression_stats = <<>>
  /\ total_aux_loss = RZero
  /\ forward_count = 0
  /\ calls = 0
  /\ out = [op |-> "init"]
  /\ held_stats = NoStats
  /\ threads = NoThreads

ApplyCompression ==
  /\ out.op = "init"
  /\ \E in \in PolicyInputs :
       LET keys == KVTensor(1, 2, in.L, 1)
           values == KVTensor(1, 2, in.L, 1)
       IN  \E c \in ApplyExpertCompression(cfg, keys, values, in.strategy,
                                           in.router_probs, 1, in.S) :
             out' = [op |-> "policy", strategy |-> in.strategy, S |-> in.S,
                     router_probs |-> in.router_probs,
                     keys |-> keys, values |-> values,
                     compressed_keys |-> c.keys, compressed_values |-> c.values,
                     cache_hit_rate |-> ComputeCacheHitRate(c.keys)]
  /\ UNCHANGED <<cfg, routers, expert_compression_stats, total_aux_loss,
                 forward_count, calls, held_stats, threads>>

NextPolicy == ApplyCompression

SpecPolicy == InitPolicy /\ [][NextPolicy]_vars

---------------------------------------------------------------------------
(* Specification SpecExample: the base router of the worked example        *)
(* (hidden size 8, 4 experts, top_k 2, capacity factor 1.5) routing        *)
(* batches of 1 x 10 tokens, the first five holding one hidden vector and  *)
(* the last five another (or the same).                                    *)
ExampleConfig == Config("base", 4, 2, Rat(3, 2))

ExampleInputs ==
  {[t \in Tokens(1, 10) |-> IF t[2] < 5 THEN v ELSE w] :
     v \in HiddenVectors(8), w \in HiddenVectors(8)}

InitExample ==
  /\ cfg = ExampleConfig
  /\ \E r \in NewRouters(cfg, 8) : routers = (0 :> r)
  /\ expert_compression_stats = <<>>
  /\ total_aux_loss = RZero
  /\ forward_count = 0
  /\ calls = 0
  /\ out = [op |-> "init"]
  /\ held_stats = NoStats
  /\ threads = NoThreads

RouteExample ==
  /\ out.op # "route"
  /\ \E hs \in ExampleInputs :
       \E o \in Forward(routers[0], hs, 1, 10) :
         /\ routers' = [routers EXCEPT ![0] = o.router]
         /\ out' = [op |-> "route", res |-> o.res, hidden_states |-> hs]
  /\ UNCHANGED <<cfg, expert_compression_stats, total_aux_loss, forward_count, calls,
                 held_stats, threads>>

NextExample == RouteExample \/ RouterResetStats

SpecExample == InitExample /\ [][NextExample]_vars

---------------------------------------------------------------------------
(* Properties of a route call (specification SpecRoute).                   *)

Routed == out.op = "route"

(* The (token, rank) assignments of the last call that dispatch accepted.  *)
Accepted(res, t) ==
  {j \in Range0(res.top_k) :
     \E x \in res.dispatch_tensor :
        x[1] = t[1] /\ x[2] = t[2] /\ x[3] = res.top_k_indices[t][j]}

DispatchedTo(res, e) == Cardinality({x \in res.dispatch_tensor : x[3] = e})

(* The sum of a token's combine weights over experts and slots, as a       *)
(* numerator over the token's renormalisation denominator.                 *)
CombineSum(res, t) ==
  LET mine == {x \in DOMAIN res.combine_tensor : x[1] = t[1] /\ x[2] = t[2]}
  IN  SumOver(res.combine_tensor, mine)

(* C1: after every route call of every router class, the number of         *)
(* assignments dispatched to an expert is at most                          *)
(* floor(batch * seq * capacity_factor * top_k / num_experts), top_k being *)
(* the top_k in effect for the call.                                       *)
C1_DispatchWithinCapacity ==
  Routed =>
    LET res == out.res
        capacity == (res.B * res.S * cfg.capacity_factor.n * res.top_k)
                      \div (cfg.capacity_factor.d * cfg.num_experts)
    IN  \A e \in Range0(cfg.num_experts) : DispatchedTo(res, e) <= capacity

(* A call that filled an expert to a capacity of at least one and dropped  *)
(* a further assignment to it.                                             *)
C1_Witness ==
  /\ Routed
  /\ \E e \in Range0(cfg.num_experts) :
       /\ out.res.capacity >= 1
       /\ DispatchedTo(out.res, e) = out.res.capacity
       /\ ExpertCount(out.res.top_k_indices, out.res.top_k, e) > out.res.capacity

(* C2 as stated: after a route call the sum of every token's combine       *)
(* weights is either the sum of its renormalised top-k probabilities or    *)
(* zero.                                                                   *)
C2_AllOrNothing ==
  Routed =>
    \A t \in Tokens(out.res.B, out.res.S) :
       CombineSum(out.res, t) \in {out.res.top_k_probs[t].T, 0}

(* The tokens whose combine weights the adaptive router doubles.           *)
Doubled(res) ==
  IF cfg.router_type = "adaptive"
  THEN {t \in Tokens(res.B, res.S) : RLess(cfg.importance_threshold, res.importance[t])}
  ELSE {}

(* C2 amended: the sum of a token's combine weights is the sum of the      *)
(* renormalised probabilities of those of its top-k assignments that       *)
(* dispatch accepted, doubled by the adaptive router for a token whose     *)
(* importance exceeds the threshold; it is the full top-k sum when no      *)
(* assignment was dropped and zero when all were.                          *)
C2_CombineSumOfAccepted ==
  Routed =>
    \A t \in Tokens(out.res.B, out.res.S) :
       LET res == out.res
           acc == Accepted(res, t)
           factor == IF t \in Doubled(res) THEN 2 ELSE 1
       IN  /\ CombineSum(res, t) = factor * SumOver(res.top_k_probs[t].nums, acc)
           /\ acc = Range0(res.top_k) =>
                CombineSum(res, t) = factor * res.top_k_probs[t].T
           /\ acc = {} => CombineSum(res, t) = 0

(* A token with one assignment accepted and another dropped, and a token   *)
(* of the adaptive router whose accepted weights were doubled.             *)
C2_Witness ==
  /\ Routed
  /\ \/ \E t \in Tokens(out.res.B, out.res.S) :
          /\ Accepted(out.res, t) \notin {{}, Range0(out.res.top_k)}
          /\ CombineSum(out.res, t) > 0
          /\ CombineSum(out.res, t) < out.res.top_k_probs[t].T
     \/ \E t \in Doubled(out.res) :
          /\ Accepted(out.res, t) # {}
          /\ CombineSum(out.res, t) > out.res.top_k_probs[t].T

(* |1 - x / (T + W * 1e-8)| <= 1e-6 for integers x, T >= 0 and             *)
(* 0 < W < 2000: were x # T the distance would be at least                 *)
(* (1 - W * 1e-8) / (T + W * 1e-8) > 1e-6, and for x = T it is             *)
(* W * 1e-8 / (T + W * 1e-8), at most 1e-6 iff W * (10^6 - 1) <= 10^8 * T. *)
SumsToOne(x, T, W) ==
  /\ x = T
  /\ (W * 999999 + (EpsInv - 1)) \div EpsInv <= T

TopKSum(res, t) == SumOver(res.top_k_probs[t].nums, Range0(res.top_k))

---------------------------------------------------------------------------
(* Properties of the press (specification Spec).                           *)

ZeroLayerStats(st) ==
  /\ \A e \in DOMAIN st.expert_usage : st.expert_usage[e] = 0
  /\ \A e \in DOMAIN st.compression_ratios : st.compression_ratios[e] = RZero
  /\ \A e \in DOMAIN st.cache_hit_rates : st.cache_hit_rates[e] = RZero

ZeroRouterStats(rs) ==
  /\ rs.total_tokens = 0
  /\ \A e \in DOMAIN rs.expert_usage_count :
       /\ rs.expert_usage_count[e] = 0
       /\ rs.routing_decisions[e] = 0
       /\ rs.expert_usage_ratios[e] = RZero

(* The histories and write cursors of a router are in their initial state. *)
EmptyHistories(r) ==
  /\ r.type = "topk_balanced" =>
       r.balance_loss_history = EmptyBuf /\ r.balance_loss_idx = 0
  /\ r.type \in {"adaptive", "pikv"} =>
       r.importance_history = EmptyBuf /\ r.importance_idx = 0
  /\ r.type = "pikv" =>
       /\ r.cache_usage_history = EmptyBuf
       /\ \A e \in DOMAIN r.cache_hit_rates : r.cache_hit_rates[e] = RZero
       /\ r.cache_update_counter = 0
  /\ r.type = "eplb" =>
       r.expert_load_history = EmptyBuf /\ r.load_history_idx = 0

(* C4: after reset_stats, get_stats yields zero for every counter, and     *)
(* every history of every router, with its write cursor, is in its empty   *)
(* initial state.                                                          *)
C4_ResetClearsEverything ==
  out.op = "reset" =>
    LET st == GetStatsValue
    IN  /\ st.total_aux_loss = RZero
        /\ st.avg_aux_loss = RZero
        /\ st.forward_count = 0
        /\ \A l \in DOMAIN st.layer_stats :
             /\ ZeroRouterStats(st.layer_stats[l].router_stats)
             /\ ZeroLayerStats(st.layer_stats[l].expert_compression_stats)
             /\ EmptyHistories(routers[l])

(* C10: compress returns keys and values with the batch, heads and         *)
(* head_dim of its inputs, of one sequence length, which is at least 1 and *)
(* at most the length of the input cache.                                  *)
C10_CompressShapes ==
  out.op = "compress" =>
    LET ck == out.compressed_keys
        cv == out.compressed_values
    IN  /\ ck.batch = out.keys.batch /\ cv.batch = out.values.batch
        /\ ck.heads = out.keys.heads /\ cv.heads = out.values.heads
        /\ ck.head_dim = out.keys.head_dim /\ cv.head_dim = out.values.head_dim
        /\ SeqLen(ck) = SeqLen(cv)
        /\ 1 <= SeqLen(ck)
        /\ SeqLen(ck) <= SeqLen(out.keys)

(* A compress call whose selective strategy shortened the cache.           *)
C10_Witness ==
  /\ out.op = "compress"
  /\ out.strategy = "selective"
  /\ SeqLen(out.compressed_keys) < SeqLen(out.keys)

---------------------------------------------------------------------------
(* Properties of the compression policy (specification SpecPolicy).        *)

Applied == out.op = "policy"

(* The positions lo, lo + 1, ..., hi - 1.                                  *)
Positions(lo, hi) == [i \in 1 .. (hi - lo) |-> lo + i - 1]

(* The (front, back) fractions the strategies are stated to keep.          *)
StatedFractions ==
  ("aggressive" :> <<Rat(1, 5), Rat(1, 10)>>)
    @@ ("moderate" :> <<Rat(3, 10), Rat(1, 5)>>)
    @@ ("conservative" :> <<Rat(1, 2), Rat(3, 10)>>)

(* C5: for aggressive, moderate and conservative, with                     *)
(* f = max(1, floor(L * front)) and b = max(1, floor(L * back)), the       *)
(* returned keys and values are positions [0, f) followed by [L - b, L)    *)
(* when L > f + b and the unchanged cache otherwise; aggressive with       *)
(* L = 100 returns [0, 20) followed by [90, 100), 30 positions.            *)
C5_PrefixAndSuffix ==
  (Applied /\ out.strategy \in DOMAIN StatedFractions) =>
    LET L == SeqLen(out.keys)
        fr == StatedFractions[out.strategy]
        f == Max(1, (L * fr[1].n) \div fr[1].d)
        b == Max(1, (L * fr[2].n) \div fr[2].d)
        kept == IF L > f + b THEN Positions(0, f) \o Positions(L - b, L)
                ELSE Positions(0, L)
    IN  /\ out.compressed_keys = [out.keys EXCEPT !.pos = kept]
        /\ out.compressed_values = [out.values EXCEPT !.pos = kept]
        /\ (out.strategy = "aggressive" /\ L = 100) =>
             /\ SeqLen(out.compressed_keys) = 30
             /\ out.compressed_keys.pos = Positions(0, 20) \o Positions(90, 100)

(* The aggressive strategy applied to a cache of 100 positions.            *)
C5_Witness ==
  /\ Applied
  /\ out.strategy = "aggressive"
  /\ SeqLen(out.keys) = 100
  /\ SeqLen(out.compressed_keys) = 30

(* C6: the selective strategy keeps exactly                                *)
(* min(L, max(1, floor(L * (1 - r)))) distinct positions, in strictly      *)
(* ascending order, none of them with a lower importance score than a      *)
(* dropped one; with r = 0.5 and L = 10 it keeps 5.                        *)
C6_SelectiveKeeps ==
  (Applied /\ out.strategy = "selective") =>
    LET L == SeqLen(out.keys)
        r == cfg.compression_ratio
        kept == out.compressed_keys.pos
        scores == ImportanceScores(out.router_probs, 1, out.S, cfg.num_experts)
        keptSet == {kept[i] : i \in 1 .. Len(kept)}
    IN  /\ Len(kept) = Min(L, Max(1, (L * (r.den - r.num)) \div r.den))
        /\ \A i \in 1 .. (Len(kept) - 1) : kept[i] < kept[i + 1]
        /\ keptSet \subseteq Range0(L)
        /\ out.compressed_values.pos = kept
        /\ out.S = L =>
             \A p \in keptSet : \A q \in Range0(L) \ keptSet :
                ~RLess(scores[p], scores[q])
        /\ (r.num = 1 /\ r.den = 2 /\ L = 10) => Len(kept) = 5

---------------------------------------------------------------------------
(* Further properties of a route call (specification SpecRoute).           *)

(* The balance loss the last call of a TopKBalancedRouter recorded.        *)
LastBalanceLoss(r) ==
  BufGetR(r.balance_loss_history, (r.balance_loss_idx - 1) % BalanceHistoryLen)

(* C7: in gini mode the balance loss is 0 when all experts have the same   *)
(* mean probability, and strictly positive when one expert holds more      *)
(* than half of the probability mass.                                      *)
C7_GiniZeroWhenUniform ==
  (Routed /\ cfg.router_type = "topk_balanced" /\ cfg.balance_mode = "gini") =>
    LET expert_probs == MeanProbs(out.res.router_probs, cfg.num_experts)
        loss == LastBalanceLoss(routers[0])
    IN  /\ (\A e \in DOMAIN expert_probs : expert_probs[e] = Rat(1, cfg.num_experts))
             => loss = RZero
        /\ (\E e \in DOMAIN expert_probs : RLess(Rat(1, 2), expert_probs[e]))
             => RLess(RZero, loss)

(* The groups a token was routed to, and the experts that got a non-zero   *)
(* composed probability.                                                   *)
SelectedGroups(res, t) == {res.top_group_indices[t][j] : j \in DOMAIN res.top_group_indices[t]}

NonZeroExperts(res, t) ==
  {e \in DOMAIN res.router_probs[t].num : res.router_probs[t].num[e] # 0}

(* C8: in hierarchical routing with G groups of E = num_experts / G        *)
(* experts, the composed probability of a token is non-zero only on        *)
(* experts [g * E, (g + 1) * E) of its selected groups g; with 4 groups    *)
(* and 8 experts a token routed to group 2 has non-zero probability only   *)
(* on experts 4 and 5.                                                     *)
C8_OnlySelectedGroups ==
  (Routed /\ cfg.router_type = "hierarchical") =>
    LET E == cfg.num_experts \div cfg.num_groups
    IN  \A t \in Tokens(out.res.B, out.res.S) :
          /\ Cardinality(SelectedGroups(out.res, t)) = Min(cfg.group_top_k, cfg.num_groups)
          /\ \A e \in NonZeroExperts(out.res, t) :
               \E g \in SelectedGroups(out.res, t) : g * E <= e /\ e < (g + 1) * E
          /\ (cfg.num_groups = 4 /\ cfg.num_experts = 8
                /\ SelectedGroups(out.res, t) = {2})
               => NonZeroExperts(out.res, t) \subseteq {4, 5}

(* A token of the router with 4 groups and 8 experts routed to group 2,    *)
(* with non-zero probability on experts 4 and 5.                           *)
C8_Witness ==
  /\ Routed
  /\ cfg.router_type = "hierarchical"
  /\ cfg.num_groups = 4 /\ cfg.num_experts = 8
  /\ \E t \in Tokens(out.res.B, out.res.S) :
       /\ SelectedGroups(out.res, t) = {2}
       /\ NonZeroExperts(out.res, t) = {4, 5}

---------------------------------------------------------------------------
(* Properties of the worked example (specification SpecExample).           *)

ZeroInput ==
  /\ Routed
  /\ \A t \in DOMAIN out.hidden_states :
       \A i \in DOMAIN out.hidden_states[t] : out.hidden_states[t][i] = 0

(* C9: the base router with batch 1, sequence 10, hidden size 8, 4         *)
(* experts, top_k 2 and capacity factor 1.5 gives every token of an        *)
(* all-zero input the probability 0.25 on each of the 4 experts, and       *)
(* dispatches with a per-expert capacity of floor(10 * 1.5 * 2 / 4) = 7.   *)
C9_UniformOnZeroInput ==
  ZeroInput =>
    /\ DOMAIN out.res.router_probs = Tokens(1, 10)
    /\ \A t \in Tokens(1, 10) :
         /\ DOMAIN out.res.router_probs[t].num = Range0(4)
         /\ \A e \in Range0(4) :
              4 * out.res.router_probs[t].num[e] = out.res.router_probs[t].den
    /\ out.res.capacity = 7
    /\ \A e \in Range0(4) : DispatchedTo(out.res, e) <= 7

(* The all-zero input routed, an expert filled to the capacity of 7.       *)
C9_Witness ==
  /\ ZeroInput
  /\ cfg = ExampleConfig
  /\ \E e \in Range0(4) : DispatchedTo(out.res, e) = 7

---------------------------------------------------------------------------
(* Properties of the orchestrator's error handling (specification          *)
(* SpecWide).                                                              *)

(* C11: compress always runs to completion and returns a (keys, values)    *)
(* pair; no call ends with an error, whatever the configuration.           *)
C11_CompressNeverFails == out.op # "error"

---------------------------------------------------------------------------
(* Properties of the orchestrator's statistics (specification Spec).       *)

(* The per-layer statistics st2 are nowhere below st1.                     *)
LayerStatsLeq(st1, st2) ==
  \A e \in DOMAIN st1.expert_usage :
    /\ st1.expert_usage[e] <= st2.expert_usage[e]
    /\ RLeq(st1.compression_ratios[e], st2.compression_ratios[e])
    /\ RLeq(st1.cache_hit_rates[e], st2.cache_hit_rates[e])

(* C12: in every step other than reset_stats the forward count, the        *)
(* auxiliary-loss total and every per-layer per-expert usage count,        *)
(* cumulative compression ratio and cumulative hit rate do not decrease,   *)
(* and a compress call increases the forward count by exactly 1.           *)
C12_CountersMonotonic ==
  [][out'.op # "reset" =>
       /\ forward_count' >= forward_count
       /\ RLeq(total_aux_loss, total_aux_loss')
       /\ DOMAIN expert_compression_stats \subseteq DOMAIN expert_compression_stats'
       /\ \A l \in DOMAIN expert_compression_stats :
            LayerStatsLeq(expert_compression_stats[l], expert_compression_stats'[l])
       /\ out'.op \in {"compress", "error"} => forward_count' = forward_count + 1]_vars

(* Two compress calls in a row on one layer with the same dominant expert, *)
(* both compressing and with a positive auxiliary loss.                    *)
C12_Witness ==
  /\ out.op = "compress"
  /\ forward_count = 2
  /\ RLess(RZero, total_aux_loss)
  /\ \E l \in DOMAIN expert_compression_stats :
       \E e \in DOMAIN expert_compression_stats[l].expert_usage :
         /\ expert_compression_stats[l].expert_usage[e] = 2
         /\ RLess(ROne, expert_compression_stats[l].compression_ratios[e])

---------------------------------------------------------------------------
(* Properties of the dictionary returned by get_stats (specification       *)
(* SpecSnapshot).                                                          *)

(* C13: the dictionary returned by get_stats is a snapshot: whatever is    *)
(* called afterwards, it reads what it read when it was returned.          *)
C13_StatsAreSnapshot ==
  held_stats # NoStats => ReadStats(held_stats.object) = held_stats.returned

---------------------------------------------------------------------------
(* Properties of the routers' statistics (specification SpecRoute).        *)

(* C14: every route call, on a router of any class, adds batch * seq to    *)
(* total_tokens and adds the call's per-expert assignment count to both    *)
(* expert_usage_count and routing_decisions.                               *)
C14_RouteCallUpdatesStats ==
  [][out'.op = "route" =>
       LET res == out'.res
           before == routers[0]
           after == routers'[0]
       IN  /\ after.total_tokens = before.total_tokens + res.B * res.S
           /\ \A e \in Range0(before.num_experts) :
                LET expert_count == ExpertCount(res.top_k_indices, res.top_k, e)
                IN  /\ after.expert_usage_count[e] =
                         before.expert_usage_count[e] + expert_count
                    /\ after.routing_decisions[e] =
                         before.routing_decisions[e] + expert_count]_vars

---------------------------------------------------------------------------
(* Properties of the effective top_k (specification SpecMask).             *)

(* C15: the effective top_k of a call of the adaptive or cache-aware       *)
(* router lies in 1 .. configured top_k, and the configured top_k after    *)
(* the call, whether it returned or raised, is what it was before.         *)
C15_TopKRestored ==
  [][out'.op \in {"route", "error"} =>
       /\ routers'[0].top_k = routers[0].top_k
       /\ out'.op = "route" => out'.res.top_k \in 1 .. routers[0].top_k]_vars

(* The same for the calls that return.                                     *)
C15_TopKRestoredOnReturn ==
  [][out'.op = "route" =>
       /\ routers'[0].top_k = routers[0].top_k
       /\ out'.res.top_k \in 1 .. routers[0].top_k]_vars

---------------------------------------------------------------------------
(* Properties of the cache-usage feedback (specification Spec).            *)

(* The router of a layer before a compress call that may be the first on   *)
(* the layer: its cache-usage cursor and hit rates.                        *)
CursorBefore(l) ==
  IF l \in DOMAIN routers THEN routers[l].cache_update_counter ELSE 0

HitRateBefore(l, e) ==
  IF l \in DOMAIN routers THEN routers[l].cache_hit_rates[e] ELSE RZero

(* C16: a compress call with the cache-aware router hands the hit rate     *)
(* h = min(1, compressed length / 1000) to the layer's router for the      *)
(* dominant expert d: cache_hit_rates[d] = h, the history of d holds h at  *)
(* index cursor mod 100, the cursor has advanced by 1, the hit rates of    *)
(* the other experts are unchanged. A router of another class gets no      *)
(* cache-usage state.                                                      *)
C16_CacheUsageFeedback ==
  [][out'.op = "compress" =>
       LET l == out'.layer
           d == out'.dominant_expert
           h == RMin(ROne, Rat(SeqLen(out'.compressed_keys), IdealCacheLen))
           after == routers'[l]
       IN  IF cfg.router_type = "pikv"
           THEN /\ after.cache_hit_rates[d] = h
                /\ BufGetR(after.cache_usage_history,
                           <<d, CursorBefore(l) % CacheHistoryLen>>) = h
                /\ after.cache_update_counter = CursorBefore(l) + 1
                /\ \A e \in Range0(cfg.num_experts) \ {d} :
                     after.cache_hit_rates[e] = HitRateBefore(l, e)
           ELSE {"cache_hit_rates", "cache_usage_history", "cache_update_counter"}
                  \cap DOMAIN after = {}]_vars

(* The second compress call on a layer of a cache-aware press, with a      *)
(* dominant expert other than that of the first call.                      *)
C16_Witness ==
  /\ out.op = "compress"
  /\ cfg.router_type = "pikv"
  /\ routers[out.layer].cache_update_counter = 2
  /\ RLess(RZero, routers[out.layer].cache_hit_rates[out.dominant_expert])
  /\ \E e \in Range0(cfg.num_experts) \ {out.dominant_expert} :
       RLess(RZero, routers[out.layer].cache_hit_rates[e])

---------------------------------------------------------------------------
(* Properties of concurrent compress calls (specification SpecConcurrent). *)

BothDone == \A t \in ThreadIds : threads[t].pc = "done"

(* C17: when two compress calls on different layers have run concurrently, *)
(* the press is in the state the two calls leave when one runs after the   *)
(* other: the forward count has grown by 2 and the auxiliary-loss total by *)
(* the sum of the two losses.                                              *)
C17_ConcurrentAsSequential ==
  BothDone =>
    /\ forward_count = 2
    /\ total_aux_loss = RAdd(threads[0].aux_loss, threads[1].aux_loss)
    /\ \A t \in ThreadIds :
         SumOver(expert_compression_stats[t].expert_usage,
                 DOMAIN expert_compression_stats[t].expert_usage) = 1

---------------------------------------------------------------------------
(* Properties of the dispatch order (specification SpecRoute).             *)

(* The place of the assignment (token t, rank j) in the order batch, then  *)
(* sequence position, then rank, and the number of assignments to the same *)
(* expert that come before it in that order.                               *)
AssignmentIndex(res, t, j) == (t[1] * res.S + t[2]) * res.top_k + j

EarlierToSameExpert(res, t, j) ==
  Cardinality({a \in (DOMAIN res.top_k_indices) \X Range0(res.top_k) :
                 /\ res.top_k_indices[a[1]][a[2]] = res.top_k_indices[t][j]
                 /\ AssignmentIndex(res, a[1], a[2]) < AssignmentIndex(res, t, j)})

(* C18: dispatch is first come, first served in the order batch, sequence  *)
(* position, rank: an assignment to expert e with fewer than capacity      *)
(* earlier assignments to e is accepted and takes the slot numbered by     *)
(* that count, every other assignment is dropped, nothing else is          *)
(* dispatched, and no (expert, slot) pair holds two tokens.                *)
C18_FirstComeFirstServed ==
  Routed =>
    LET res == out.res
    IN  /\ \A t \in DOMAIN res.top_k_indices : \A j \in Range0(res.top_k) :
             LET e == res.top_k_indices[t][j]
                 earlier == EarlierToSameExpert(res, t, j)
                 mine == {x \in res.dispatch_tensor :
                            x[1] = t[1] /\ x[2] = t[2] /\ x[3] = e}
             IN  IF earlier < res.capacity
                 THEN mine = {<<t[1], t[2], e, earlier>>}
                 ELSE mine = {}
        /\ \A x \in res.dispatch_tensor :
             \E j \in Range0(res.top_k) : res.top_k_indices[<<x[1], x[2]>>][j] = x[3]
        /\ \A x, y \in res.dispatch_tensor :
             (x[3] = y[3] /\ x[4] = y[4]) => x = y

(* A call in which the second assignment to an expert took slot 1, and a   *)
(* call in which an assignment was dropped behind capacity-many earlier    *)
(* ones.                                                                   *)
C18_Witness ==
  /\ Routed
  /\ \/ \E x \in out.res.dispatch_tensor : x[4] = 1
     \/ /\ out.res.capacity >= 1
        /\ \E t \in DOMAIN out.res.top_k_indices : \E j \in Range0(out.res.top_k) :
             EarlierToSameExpert(out.res, t, j) >= out.res.capacity

---------------------------------------------------------------------------
(* Properties of the selective strategy when router_probs and the cache    *)
(* differ in length (specification SpecPolicy).                            *)

SelectiveMismatch ==
  Applied /\ out.strategy = "selective" /\ out.S # SeqLen(out.keys)

(* C19: when the selective strategy is applied and router_probs has a      *)
(* sequence length other than the cache length L, the call returns the     *)
(* last num_keep = min(L, max(1, floor(L * (1 - r)))) positions            *)
(* [L - num_keep, L) of keys and values, in their original order.          *)
C19_FallbackKeepsLast ==
  SelectiveMismatch =>
    LET L == SeqLen(out.keys)
        r == cfg.compression_ratio
        num_keep == Min(L, Max(1, (L * (r.den - r.num)) \div r.den))
    IN  /\ out.compressed_keys = [out.keys EXCEPT !.pos = Positions(L - num_keep, L)]
        /\ out.compressed_values = [out.values EXCEPT !.pos = Positions(L - num_keep, L)]

(* The same with the num_keep that line 994 computes in floating point:    *)
(* the kept positions are the last num_keep ones, in order.                *)
C19_FallbackKeepsLastComputed ==
  SelectiveMismatch =>
    LET L == SeqLen(out.keys)
        num_keep == NumKeep(L, cfg.compression_ratio)
    IN  /\ out.compressed_keys = [out.keys EXCEPT !.pos = Positions(L - num_keep, L)]
        /\ out.compressed_values = [out.values EXCEPT !.pos = Positions(L - num_keep, L)]

---------------------------------------------------------------------------
(* Properties of the dispatched weights (specification SpecRoute).         *)

(* C20: after a route call of any router class, every (token, expert,      *)
(* slot) entry with dispatch = 1 has a strictly positive combine weight,   *)
(* and in hierarchical routing its expert belongs to one of the groups     *)
(* selected for the token.                                                 *)
C20_DispatchedWeightPositive ==
  Routed =>
    LET res == out.res
    IN  \A x \in res.dispatch_tensor :
          /\ BufGet(res.combine_tensor, x) > 0
          /\ routers[0].type = "hierarchical" =>
               /\ routers[0].experts_per_group > 0
               /\ (x[3] \div routers[0].experts_per_group)
                    \in SelectedGroups(res, <<x[1], x[2]>>)

(* The same for the router classes that take top_k of a softmax over all   *)
(* experts.                                                                *)
C20_SoftmaxWeightPositive ==
  (Routed /\ routers[0].type # "hierarchical") =>
    \A x \in out.res.dispatch_tensor : BufGet(out.res.combine_tensor, x) > 0

---------------------------------------------------------------------------
(* Properties of the orchestrator's bookkeeping across failing calls       *)
(* (specification SpecWide).                                               *)

(* The sum over all layers with a statistics record and all experts of the *)
(* per-layer expert_usage counts.                                          *)
TotalExpertUsage ==
  SumOver([l \in DOMAIN expert_compression_stats |->
             SumOver(expert_compression_stats[l].expert_usage,
                     DOMAIN expert_compression_stats[l].expert_usage)],
          DOMAIN expert_compression_stats)

(* C21: in every reachable state of the press the forward count equals the *)
(* sum over all layers and experts of the expert_usage counts, and the     *)
(* layers that have a router are the layers that have a statistics record. *)
C21_ForwardCountIsUsage ==
  /\ forward_count = TotalExpertUsage
  /\ DOMAIN routers = DOMAIN expert_compression_stats

(* The second half alone.                                                  *)
C21_SameLayers == DOMAIN routers = DOMAIN expert_compression_stats

(* C22: a compress call that ends with an error leaves the registry, the   *)
(* routers, the per-layer statistics, the auxiliary-loss total and the     *)
(* forward count as they were before the call.                             *)
C22_FailedCallChangesNothing ==
  [][out'.op = "error" =>
       /\ routers' = routers
       /\ expert_compression_stats' = expert_compression_stats
       /\ total_aux_loss' = total_aux_loss
       /\ forward_count' = forward_count]_vars

---------------------------------------------------------------------------
(* Properties of the routers' usage counters (specification SpecRoute).    *)

CountsSelections(r) == r.type \in {"base", "topk_balanced"}

UsageSum(r) == SumOver(r.expert_usage_count, DOMAIN r.expert_usage_count)

(* C23: for the base and topk_balanced routers, after every route or       *)
(* reset_stats call the expert_usage_count entries sum to top_k times      *)
(* total_tokens, and a route call raises the count of each expert by the   *)
(* number of top-k selections of that expert, which is at least the number *)
(* of tokens dispatched to it.                                             *)
C23_UsageCountsSelections ==
  [][CountsSelections(routers[0]) =>
       /\ UsageSum(routers'[0]) = routers'[0].top_k * routers'[0].total_tokens
       /\ out'.op = "route" =>
            \A e \in DOMAIN routers[0].expert_usage_count :
              /\ routers'[0].expert_usage_count[e] - routers[0].expert_usage_count[e]
                   = ExpertCount(out'.res.top_k_indices, out'.res.top_k, e)
              /\ routers'[0].expert_usage_count[e] - routers[0].expert_usage_count[e]
                   >= DispatchedTo(out'.res, e)]_vars

(* A route call of such a router in which an expert was selected by more   *)
(* tokens than were dispatched to it, the counters holding every           *)
(* selection.                                                              *)
C23_Witness ==
  /\ Routed
  /\ CountsSelections(routers[0])
  /\ routers[0].total_tokens = out.res.B * out.res.S
  /\ UsageSum(routers[0]) = routers[0].top_k * routers[0].total_tokens
  /\ \E e \in DOMAIN routers[0].expert_usage_count :
       /\ routers[0].expert_usage_count[e] > DispatchedTo(out.res, e)
       /\ DispatchedTo(out.res, e) = out.res.capacity

====
